---------------------------- MODULE Spec2Model ----------------------------
(***************************************************************************)
(* External scanner of tree-sitter-autohotkey (src/src/scanner.c).         *)
(*                                                                         *)
(* Characters are one-character strings; NUL is the code point 0 that the  *)
(* host lexer shows as lookahead at end of input.  A lexer is a record     *)
(*   pos   - number of characters advanced over so far                     *)
(*   mark  - position of the last mark_end call, NoMark when never called  *)
(*   start - position after the last advance(lexer, true) (skipped text)   *)
(* The recognizers are operators over an input and a lexer, translated     *)
(* statement by statement; the dispatcher is a state machine with one      *)
(* action per if (valid_symbols[K]) block.                                 *)
(***************************************************************************)
EXTENDS Integers, Sequences, FiniteSets, TLC

\* ------------------------------------------------------------ characters

NUL == "NUL"
SP == " "
TAB == "\t"
LF == "\n"
CR == "\r"
DQ == "\""
SQ == "'"
\* U+0060, the literal-backtick option of a continuation section
BACKTICK == "BACKTICK"

LowerLetters ==
    {"a","b","c","d","e","f","g","h","i","j","k","l","m",
     "n","o","p","q","r","s","t","u","v","w","x","y","z"}

UpperToLower ==
    [A |-> "a", B |-> "b", C |-> "c", D |-> "d", E |-> "e", F |-> "f",
     G |-> "g", H |-> "h", I |-> "i", J |-> "j", K |-> "k", L |-> "l",
     M |-> "m", N |-> "n", O |-> "o", P |-> "p", Q |-> "q", R |-> "r",
     S |-> "s", T |-> "t", U |-> "u", V |-> "v", W |-> "w", X |-> "x",
     Y |-> "y", Z |-> "z"]

UpperLetters == DOMAIN UpperToLower

Digits == {"0","1","2","3","4","5","6","7","8","9"}

\* tolower of <ctype.h>, on the ASCII range
tolower(c) == IF c \in UpperLetters THEN UpperToLower[c] ELSE c

is_alpha(c) == c \in LowerLetters \/ c \in UpperLetters

is_alnum(c) == is_alpha(c) \/ c \in Digits

is_identifier_char(c) == is_alnum(c) \/ c = "_"

is_eol(c) == c = CR \/ c = LF \/ c = NUL

\* Mutant: the carriage return is not counted as whitespace
is_whitespace_without_cr(c) == c = SP \/ c = TAB \/ c = LF

is_whitespace(c) == c = SP \/ c = TAB \/ c = LF \/ c = CR

\* ------------------------------------------------------- host lexer (TSLexer)

NoMark == -1

\* lexer->eof(lexer)
is_eof(s, lex) == lex.pos >= Len(s)

\* lexer->lookahead: the code point at the cursor, 0 at end of input
lookahead(s, lex) == IF lex.pos < Len(s) THEN s[lex.pos + 1] ELSE NUL

\* lexer->advance(lexer, skip): no progress at end of input
advance(s, lex, skip) ==
    IF lex.pos < Len(s)
    THEN [lex EXCEPT !.pos = lex.pos + 1,
                     !.start = IF skip THEN lex.pos + 1 ELSE lex.start]
    ELSE lex

\* lexer->mark_end(lexer)
mark_end(lex) == [lex EXCEPT !.mark = lex.pos]

\* Where the token ends when the scan returns true: the last mark_end, or
\* the cursor when mark_end was never called.
TokenEnd(lex) == IF lex.mark = NoMark THEN lex.pos ELSE lex.mark

NewLexer(p) == [pos |-> p, mark |-> NoMark, start |-> p]

\* ------------------------------------------------------------ skip macros

RECURSIVE skip_whitespace(_, _)
skip_whitespace(s, lex) ==
    IF is_whitespace(lookahead(s, lex))
    THEN skip_whitespace(s, advance(s, lex, TRUE))
    ELSE lex

RECURSIVE skip_to_whitespace(_, _)
skip_to_whitespace(s, lex) ==
    IF ~is_whitespace(lookahead(s, lex)) /\ ~is_eof(s, lex)
    THEN skip_to_whitespace(s, advance(s, lex, FALSE))
    ELSE lex

\* skip_horizontal_ws: the lexer after the loop, and whether any was skipped
RECURSIVE HwsLoop(_, _, _)
HwsLoop(s, lex, skipped) ==
    IF lookahead(s, lex) = SP \/ lookahead(s, lex) = TAB
    THEN HwsLoop(s, advance(s, lex, FALSE), TRUE)
    ELSE [lex |-> lex, skipped |-> skipped]

skip_horizontal_ws(s, lex) == HwsLoop(s, lex, FALSE)

\* ------------------------------------------------------------ identifiers

\* The loop of skip_identifier: buf[len] is written only while
\* len < buf_size - 1 (and only when buf is not NULL, buf_size = 0 here).
RECURSIVE IdentLoop(_, _, _, _, _)
IdentLoop(s, lex, len, buf, buf_size) ==
    IF is_identifier_char(lookahead(s, lex))
    THEN IdentLoop(s, advance(s, lex, FALSE), len + 1,
                   IF len < buf_size - 1
                   THEN Append(buf, lookahead(s, lex)) ELSE buf,
                   buf_size)
    ELSE [lex |-> lex, len |-> len, buf |-> buf]

\* skip_identifier(lexer, buf, buf_size).  fill is what the bytes of buf
\* that the call does not write hold, read as a C string: <<>> for a zeroed
\* buffer, arbitrary for an uninitialized one.  The terminator is written
\* only when len < buf_size; otherwise the string read back from buf runs
\* on into the unwritten bytes.
skip_identifier(s, lex, buf_size, fill) ==
    LET r == IdentLoop(s, lex, 0, <<>>, buf_size)
    IN  [lex |-> r.lex,
         len |-> r.len,
         ident |-> IF r.len < buf_size THEN r.buf ELSE r.buf \o fill]

\* Mutant: the comparison is case-sensitive
strcaseeq_case_sensitive(a, b) == a = b

\* strcaseeq(a, b): walk both strings while neither has ended
RECURSIVE strcaseeq(_, _)
strcaseeq(a, b) ==
    IF a # <<>> /\ b # <<>>
    THEN IF tolower(Head(a)) # tolower(Head(b))
         THEN FALSE
         ELSE strcaseeq(Tail(a), Tail(b))
    ELSE (a = <<>>) = (b = <<>>)

OperatorKeywords ==
    { <<"a","n","d">>, <<"n","o","t">>, <<"i","s">>, <<"o","r">>,
      <<"c","o","n","t","a","i","n","s">> }

FlowKeywords ==
    { <<"i","f">>, <<"e","l","s","e">>, <<"w","h","i","l","e">>,
      <<"f","o","r">>, <<"l","o","o","p">>, <<"t","h","r","o","w">>,
      <<"t","r","y">>, <<"c","a","t","c","h">>,
      <<"f","i","n","a","l","l","y">>, <<"b","r","e","a","k">>,
      <<"c","o","n","t","i","n","u","e">>, <<"a","s">>, <<"i","n">>,
      <<"s","w","i","t","c","h">>, <<"c","a","s","e">>,
      <<"d","e","f","a","u","l","t">>, <<"g","o","t","o">>,
      <<"r","e","t","u","r","n">> }

is_operator_keyword(ident) == \E k \in OperatorKeywords : strcaseeq(ident, k)

starts_operator_keyword(c) ==
    c \in {"a","A","n","N","i","I","o","O","c","C"}

is_flow_keyword(ident) == \E k \in FlowKeywords : strcaseeq(ident, k)

is_keyword(ident) == is_operator_keyword(ident) \/ is_flow_keyword(ident)

StaticKeyword == <<"s","t","a","t","i","c">>

IdentBufSize == 16


\* A recognizer's outcome: its verdict and the lexer it leaves behind.
Verdict(ok, lex) == [ok |-> ok, lex |-> lex]

\* ------------------------------------------------- is_function_declaration

\* The paren-matching loop: stops at depth 0 or at a lookahead of 0
RECURSIVE MatchParens(_, _, _)
MatchParens(s, lex, depth) ==
    IF depth > 0 /\ lookahead(s, lex) # NUL
    THEN MatchParens(s, advance(s, lex, FALSE),
                     IF lookahead(s, lex) = "(" THEN depth + 1
                     ELSE IF lookahead(s, lex) = ")" THEN depth - 1
                     ELSE depth)
    ELSE [lex |-> lex, depth |-> depth]

\* Mutant: the whitespace between the closing parenthesis and the body is
\* not skipped
FunctionBody_no_skip_before_body(s, lex) ==
    IF lookahead(s, lex) # "("
    THEN Verdict(FALSE, lex)
    ELSE LET m == MatchParens(s, advance(s, lex, FALSE), 1)
         IN  IF m.depth # 0
             THEN Verdict(FALSE, m.lex)
             ELSE LET w == m.lex
                  IN  IF lookahead(s, w) = "{"
                      THEN Verdict(TRUE, w)
                      ELSE IF lookahead(s, w) = "="
                      THEN LET e == advance(s, w, FALSE)
                           IN  Verdict(lookahead(s, e) = ">", e)
                      ELSE Verdict(FALSE, w)

\* From "Expect '('" to the end of is_function_declaration
FunctionBody(s, lex) ==
    IF lookahead(s, lex) # "("
    THEN Verdict(FALSE, lex)
    ELSE LET m == MatchParens(s, advance(s, lex, FALSE), 1)
         IN  IF m.depth # 0
             THEN Verdict(FALSE, m.lex)
             ELSE LET w == skip_whitespace(s, m.lex)
                  IN  IF lookahead(s, w) = "{"
                      THEN Verdict(TRUE, w)
                      ELSE IF lookahead(s, w) = "="
                      THEN LET e == advance(s, w, FALSE)
                           IN  Verdict(lookahead(s, e) = ">", e)
                      ELSE Verdict(FALSE, w)

\* Mutant: after static all whitespace is skipped, line breaks included
StaticName_skips_newlines(s, lex) ==
    LET w == skip_whitespace(s, lex)
    IN  IF w.pos = lex.pos
        THEN Verdict(FALSE, w)
        ELSE IF ~is_identifier_char(lookahead(s, w))
        THEN Verdict(FALSE, w)
        ELSE LET n == skip_identifier(s, w, 0, <<>>)
             IN  IF n.len = 0
                 THEN Verdict(FALSE, n.lex)
                 ELSE FunctionBody(s, n.lex)

\* The branch taken when the first identifier is static
StaticName(s, lex) ==
    LET h == skip_horizontal_ws(s, lex)
    IN  IF ~h.skipped
        THEN Verdict(FALSE, h.lex)
        ELSE IF ~is_identifier_char(lookahead(s, h.lex))
        THEN Verdict(FALSE, h.lex)
        ELSE LET n == skip_identifier(s, h.lex, 0, <<>>)
             IN  IF n.len = 0
                 THEN Verdict(FALSE, n.lex)
                 ELSE FunctionBody(s, n.lex)

\* junk is what the uninitialized char ident[16] holds past the bytes
\* skip_identifier writes.
is_function_declaration(s, lex, junk) ==
    LET w == skip_whitespace(s, lex)
    IN  IF ~is_identifier_char(lookahead(s, w))
        THEN Verdict(FALSE, w)
        ELSE LET id == skip_identifier(s, w, IdentBufSize, junk)
             IN  IF strcaseeq(id.ident, StaticKeyword)
                 THEN StaticName(s, id.lex)
                 ELSE IF is_keyword(id.ident)
                 THEN Verdict(FALSE, id.lex)
                 ELSE FunctionBody(s, id.lex)

\* ------------------------------------------------------ is_optional_marker

OptionalFollowers == {")", "]", "}", ",", ":"}

\* Mutant: the commit point is marked right after the ?, before the
\* whitespace is skipped
is_optional_marker_marks_early(s, lex) ==
    IF lookahead(s, lex) # "?"
    THEN Verdict(FALSE, lex)
    ELSE LET m == mark_end(advance(s, lex, FALSE))
             w == skip_whitespace(s, m)
         IN  Verdict(lookahead(s, w) \in OptionalFollowers \/ is_eof(s, w), w)

\* Mutant: the end of the input is not accepted after the ?
is_optional_marker_without_eof(s, lex) ==
    IF lookahead(s, lex) # "?"
    THEN Verdict(FALSE, lex)
    ELSE LET w == skip_whitespace(s, advance(s, lex, FALSE))
         IN  Verdict(lookahead(s, w) \in OptionalFollowers, w)

is_optional_marker(s, lex) ==
    IF lookahead(s, lex) # "?"
    THEN Verdict(FALSE, lex)
    ELSE LET w == skip_whitespace(s, advance(s, lex, FALSE))
         IN  Verdict(lookahead(s, w) \in OptionalFollowers \/ is_eof(s, w), w)

\* ------------------------------------------------------------ is_empty_arg

\* Mutant: the commit point is set again after the whitespace is skipped
is_empty_arg_marks_after_ws(s, lex) ==
    LET w == mark_end(skip_whitespace(s, lex))
    IN  Verdict(lookahead(s, w) = ",", w)

\* Mutant: the whitespace before the comma is not skipped
is_empty_arg_without_skip(s, lex) ==
    Verdict(lookahead(s, lex) = ",", lex)

is_empty_arg(s, lex) ==
    LET w == skip_whitespace(s, lex)
    IN  Verdict(lookahead(s, w) = ",", w)

\* ----------------------------------------------- is_implicit_concatenation

\* Mutant: the signs are counted among the operator starts
is_operator_start_with_signs(c) ==
    c \in {"?", "*", "/", "<", ">", "=", "^", "|", "&", "!", "~", ":", ".", ",",
           "+", "-"}

is_operator_start(c) ==
    c \in {"?", "*", "/", "<", ">", "=", "^", "|", "&", "!", "~", ":", ".", ","}

is_expression_start(c) ==
    \/ is_identifier_char(c)
    \/ c \in {"_", DQ, SQ, "(", "+", "-", "%"}

ConcatBufSize == 4

\* Mutant: whitespace after the sign is skipped and then ignored
SignBranch_allows_space(s, lex, sign) ==
    LET m == mark_end(lex)
        a == advance(s, m, FALSE)
        h == skip_horizontal_ws(s, a)
    IN  IF lookahead(s, h.lex) = sign \/ is_eof(s, h.lex)
        THEN Verdict(FALSE, h.lex)
        ELSE Verdict(is_expression_start(lookahead(s, h.lex)), h.lex)

\* Mutant: mark_end is called after the sign is advanced over
SignBranch_marks_after_sign(s, lex, sign) ==
    LET a == mark_end(advance(s, lex, FALSE))
        h == skip_horizontal_ws(s, a)
    IN  IF h.skipped \/ lookahead(s, h.lex) = sign \/ is_eof(s, h.lex)
        THEN Verdict(FALSE, h.lex)
        ELSE Verdict(is_expression_start(lookahead(s, h.lex)), h.lex)

\* The + branch and the - branch: the same code with the sign swapped
SignBranch(s, lex, sign) ==
    LET m == mark_end(lex)
        a == advance(s, m, FALSE)
        h == skip_horizontal_ws(s, a)
    IN  IF h.skipped \/ lookahead(s, h.lex) = sign \/ is_eof(s, h.lex)
        THEN Verdict(FALSE, h.lex)
        ELSE LET h2 == skip_horizontal_ws(s, h.lex)
             IN  Verdict(~is_eof(s, h2.lex)
                           /\ is_expression_start(lookahead(s, h2.lex)),
                         h2.lex)

\* Mutant: the result of the first skip_horizontal_ws is not tested
is_implicit_concatenation_ws_optional(s, lex, junk) ==
    LET h == skip_horizontal_ws(s, lex)
        c == lookahead(s, h.lex)
    IN  IF is_eol(c) \/ is_eof(s, h.lex)
        THEN Verdict(FALSE, h.lex)
        ELSE IF is_operator_start(c)
        THEN Verdict(FALSE, h.lex)
        ELSE IF ~is_expression_start(c)
        THEN Verdict(FALSE, h.lex)
        ELSE IF c = "+" \/ c = "-"
        THEN SignBranch(s, h.lex, c)
        ELSE LET m == mark_end(h.lex)
             IN  IF starts_operator_keyword(c)
                 THEN LET id == skip_identifier(s, m, ConcatBufSize, junk)
                      IN  Verdict(~is_operator_keyword(id.ident), id.lex)
                 ELSE Verdict(TRUE, m)

\* junk is what the uninitialized char ident[4] holds past the bytes
\* skip_identifier writes.
is_implicit_concatenation(s, lex, junk) ==
    LET h == skip_horizontal_ws(s, lex)
        c == lookahead(s, h.lex)
    IN  IF ~h.skipped
        THEN Verdict(FALSE, h.lex)
        ELSE IF is_eol(c) \/ is_eof(s, h.lex)
        THEN Verdict(FALSE, h.lex)
        ELSE IF is_operator_start(c)
        THEN Verdict(FALSE, h.lex)
        ELSE IF ~is_expression_start(c)
        THEN Verdict(FALSE, h.lex)
        ELSE IF c = "+" \/ c = "-"
        THEN SignBranch(s, h.lex, c)
        ELSE LET m == mark_end(h.lex)
             IN  IF starts_operator_keyword(c)
                 THEN LET id == skip_identifier(s, m, ConcatBufSize, junk)
                      IN  Verdict(~is_operator_keyword(id.ident), id.lex)
                 ELSE Verdict(TRUE, m)

\* --------------------------------------------------- is_continuation_start

JoinBufSize == 5

OptBufSize == 10

JoinOption == <<"j","o","i","n">>

CommentOptions ==
    { <<"c","o","m","m","e","n","t","s">>, <<"c","o","m","m","e","n","t">>,
      <<"c","o","m">>, <<"c">> }

\* Mutant: rtrim is taken for a trim option
TrimOptions_with_rtrim ==
    { <<"l","t","r","i","m">>, <<"l","t","r","i","m","0">>,
      <<"r","t","r","i","m","0">>, <<"r","t","r","i","m">> }

TrimOptions ==
    { <<"l","t","r","i","m">>, <<"l","t","r","i","m","0">>,
      <<"r","t","r","i","m","0">> }

strcaseeq_any(ident, options) == \E o \in options : strcaseeq(ident, o)

\* The while(!is_eol(lexer->lookahead)) loop over the option tokens; opt
\* is zeroed by memset before every token, so nothing unwritten is read.
RECURSIVE OptionLoop(_, _)
OptionLoop(s, lex) ==
    LET c == lookahead(s, lex)
    IN  IF is_eol(c)
        THEN Verdict(TRUE, lex)
        ELSE IF is_eof(s, lex)
        THEN Verdict(FALSE, lex)
        ELSE IF c \in {"j", "J"}
        THEN LET id == skip_identifier(s, lex, JoinBufSize, <<>>)
             IN  IF ~strcaseeq(id.ident, JoinOption)
                 THEN Verdict(FALSE, id.lex)
                 ELSE OptionLoop(s,
                        skip_horizontal_ws(s, skip_to_whitespace(s, id.lex)).lex)
        ELSE IF c \in {"c", "C"}
        THEN LET id == skip_identifier(s, lex, OptBufSize, <<>>)
             IN  IF ~strcaseeq_any(id.ident, CommentOptions)
                 THEN Verdict(FALSE, id.lex)
                 ELSE OptionLoop(s, skip_horizontal_ws(s, id.lex).lex)
        ELSE IF c \in {"l", "L", "r", "R"}
        THEN LET id == skip_identifier(s, lex, OptBufSize, <<>>)
             IN  IF ~strcaseeq_any(id.ident, TrimOptions)
                 THEN Verdict(FALSE, id.lex)
                 ELSE OptionLoop(s, skip_horizontal_ws(s, id.lex).lex)
        ELSE IF c = BACKTICK
        THEN OptionLoop(s, skip_horizontal_ws(s, advance(s, lex, FALSE)).lex)
        ELSE Verdict(FALSE, lex)

\* Mutant: mark_end is called after the options are scanned
is_continuation_start_marks_after_options(s, lex) ==
    LET h == skip_horizontal_ws(s, lex).lex
    IN  IF is_eof(s, h)
        THEN Verdict(FALSE, h)
        ELSE IF ~is_eol(lookahead(s, h))
        THEN Verdict(FALSE, h)
        ELSE LET w == skip_whitespace(s, h)
             IN  IF lookahead(s, w) # "("
                 THEN Verdict(FALSE, w)
                 ELSE LET o == OptionLoop(s,
                                 skip_horizontal_ws(s,
                                     advance(s, w, FALSE)).lex)
                      IN  Verdict(o.ok, mark_end(o.lex))

\* Mutant: the test for a line terminator before the ( is left out
is_continuation_start_on_same_line(s, lex) ==
    LET h == skip_horizontal_ws(s, lex).lex
    IN  IF is_eof(s, h)
        THEN Verdict(FALSE, h)
        ELSE LET w == skip_whitespace(s, h)
             IN  IF lookahead(s, w) # "("
                 THEN Verdict(FALSE, w)
                 ELSE OptionLoop(s,
                        skip_horizontal_ws(s,
                            mark_end(advance(s, w, FALSE))).lex)

is_continuation_start(s, lex) ==
    LET h == skip_horizontal_ws(s, lex).lex
    IN  IF is_eof(s, h)
        THEN Verdict(FALSE, h)
        ELSE IF ~is_eol(lookahead(s, h))
        THEN Verdict(FALSE, h)
        ELSE LET w == skip_whitespace(s, h)
             IN  IF lookahead(s, w) # "("
                 THEN Verdict(FALSE, w)
                 ELSE OptionLoop(s,
                        skip_horizontal_ws(s,
                            mark_end(advance(s, w, FALSE))).lex)

\* ------------------------------------------------------------- token kinds

OPTIONAL_MARKER == "OPTIONAL_MARKER"
FUNCTION_DEF_MARKER == "FUNCTION_DEF_MARKER"
EMPTY_ARG == "EMPTY_ARG"
IMPLICIT_CONCAT_MARKER == "IMPLICIT_CONCAT_MARKER"
CONTINUATION_SECTION_START == "CONTINUATION_SECTION_START"
CONTINUATION_NEWLINE == "CONTINUATION_NEWLINE"

\* enum TokenType: the kinds the scanner has a recognizer for
TokenType ==
    {OPTIONAL_MARKER, FUNCTION_DEF_MARKER, EMPTY_ARG, IMPLICIT_CONCAT_MARKER,
     CONTINUATION_SECTION_START, CONTINUATION_NEWLINE}

\* The two externals the grammar declares after the six of the scanner
ExtraExternals == {"_directive_end", "block_comment"}

\* -------------------------------------------------------------- dispatcher

VARIABLES
    input,          \* the text from the cursor on, a sequence of characters
    valid,          \* valid_symbols: the set of kinds whose entry is true
    junk,           \* what uninitialized stack buffers hold, as a C string
    lex,            \* the host lexer
    pc,             \* the block of the scan function that runs next
    returned,       \* "running", or the scan function's return value
    result_symbol,  \* lexer->result_symbol, "unset" until assigned
    tried,          \* history: the recognizer calls made, in order
    payload,        \* the handle create returned, passed to every hook
    finished        \* history: the calls and hooks that have returned

vars ==
    <<input, valid, junk, lex, pc, returned, result_symbol, tried,
      payload, finished>>

\* What tree_sitter_autohotkey_external_scanner_create returns
NullPayload == "NULL"

\* The scanner has been created and nothing has been called on it yet
Created ==
    /\ payload = NullPayload
    /\ finished = <<>>

Call(kind, from, v) == [kind |-> kind, from |-> from, ok |-> v.ok, to |-> v.lex]

\* A recognizer returned v: return true with its kind, or fall through.
Attempt(kind, v, next) ==
    /\ lex' = v.lex
    /\ tried' = Append(tried, Call(kind, lex, v))
    /\ IF v.ok
       THEN /\ result_symbol' = kind
            /\ returned' = "true"
            /\ pc' = "done"
       ELSE /\ pc' = next
            /\ UNCHANGED <<returned, result_symbol>>
    /\ UNCHANGED <<input, valid, junk, payload, finished>>

\* valid_symbols[kind] is false: the block is skipped.
Skip(next) ==
    /\ pc' = next
    /\ UNCHANGED <<input, valid, junk, lex, returned, result_symbol, tried,
                   payload, finished>>

TryOptionalMarker ==
    /\ pc = "optional_marker"
    /\ IF OPTIONAL_MARKER \in valid
       THEN Attempt(OPTIONAL_MARKER, is_optional_marker(input, lex), "empty_arg")
       ELSE Skip("empty_arg")

\* Mutant: a declined empty argument jumps to the function-definition check
TryEmptyArg_JumpsToLast ==
    /\ pc = "empty_arg"
    /\ IF EMPTY_ARG \in valid
       THEN Attempt(EMPTY_ARG, is_empty_arg(input, mark_end(lex)),
                    "function_def")
       ELSE Skip("function_def")

\* Mutant: mark_end is not called before is_empty_arg
TryEmptyArg_Unmarked ==
    /\ pc = "empty_arg"
    /\ IF EMPTY_ARG \in valid
       THEN Attempt(EMPTY_ARG, is_empty_arg(input, lex), "implicit_concat")
       ELSE Skip("implicit_concat")

TryEmptyArg ==
    /\ pc = "empty_arg"
    /\ IF EMPTY_ARG \in valid
       THEN Attempt(EMPTY_ARG, is_empty_arg(input, mark_end(lex)),
                    "implicit_concat")
       ELSE Skip("implicit_concat")

TryImplicitConcat ==
    /\ pc = "implicit_concat"
    /\ IF IMPLICIT_CONCAT_MARKER \in valid
       THEN Attempt(IMPLICIT_CONCAT_MARKER,
                    is_implicit_concatenation(input, mark_end(lex), junk),
                    "continuation_start")
       ELSE Skip("continuation_start")

TryContinuationStart ==
    /\ pc = "continuation_start"
    /\ IF CONTINUATION_SECTION_START \in valid
       THEN Attempt(CONTINUATION_SECTION_START,
                    is_continuation_start(input, mark_end(lex)),
                    "continuation_newline")
       ELSE Skip("continuation_newline")

\* scan_continuation_newline up to its skip_eol loop: a decline falls
\* through; on a line terminator the loop is entered, after which the
\* function can only return true (recorded as ok in the history).
TryContinuationNewline ==
    /\ pc = "continuation_newline"
    /\ IF CONTINUATION_NEWLINE \in valid
       THEN LET h == skip_horizontal_ws(input, mark_end(lex)).lex
            IN  IF ~is_eof(input, h) /\ is_eol(lookahead(input, h))
                THEN /\ lex' = h
                     /\ pc' = "skip_eol"
                     /\ tried' = Append(tried,
                            [kind |-> CONTINUATION_NEWLINE, from |-> lex,
                             ok |-> TRUE, to |-> h])
                     /\ UNCHANGED <<input, valid, junk, returned,
                                    result_symbol, payload, finished>>
                ELSE Attempt(CONTINUATION_NEWLINE, Verdict(FALSE, h),
                             "function_def")
       ELSE Skip("function_def")

\* One iteration of skip_eol: while(is_eol(lookahead)) advance(lexer, true).
\* is_eol holds of the 0 shown at end of input, where advance does nothing.
SkipEolStep ==
    /\ pc = "skip_eol"
    /\ is_eol(lookahead(input, lex))
    /\ lex' = advance(input, lex, TRUE)
    /\ UNCHANGED <<input, valid, junk, pc, returned, result_symbol, tried,
                   payload, finished>>

\* skip_eol's loop exits: mark_end, return true.
SkipEolExit ==
    /\ pc = "skip_eol"
    /\ ~is_eol(lookahead(input, lex))
    /\ lex' = mark_end(lex)
    /\ tried' = [tried EXCEPT ![Len(tried)].to = mark_end(lex)]
    /\ result_symbol' = CONTINUATION_NEWLINE
    /\ returned' = "true"
    /\ pc' = "done"
    /\ UNCHANGED <<input, valid, junk, payload, finished>>

\* Mutant: mark_end is not called before is_function_declaration
TryFunctionDef_Unmarked ==
    /\ pc = "function_def"
    /\ IF FUNCTION_DEF_MARKER \in valid
       THEN Attempt(FUNCTION_DEF_MARKER,
                    is_function_declaration(input, lex, junk),
                    "return_false")
       ELSE Skip("return_false")

\* Mutant: the function-definition check runs whatever valid_symbols says
TryFunctionDef_Unguarded ==
    /\ pc = "function_def"
    /\ Attempt(FUNCTION_DEF_MARKER,
               is_function_declaration(input, mark_end(lex), junk),
               "return_false")

TryFunctionDef ==
    /\ pc = "function_def"
    /\ IF FUNCTION_DEF_MARKER \in valid
       THEN Attempt(FUNCTION_DEF_MARKER,
                    is_function_declaration(input, mark_end(lex), junk),
                    "return_false")
       ELSE Skip("return_false")

\* The final return false;
ReturnFalse ==
    /\ pc = "return_false"
    /\ returned' = "false"
    /\ pc' = "done"
    /\ UNCHANGED <<input, valid, junk, lex, result_symbol, tried,
                   payload, finished>>

Next ==
    \/ TryOptionalMarker
    \/ TryEmptyArg
    \/ TryImplicitConcat
    \/ TryContinuationStart
    \/ TryContinuationNewline
    \/ SkipEolStep
    \/ SkipEolExit
    \/ TryFunctionDef
    \/ ReturnFalse

\* The state in which the scan function reaches its last block when no
\* earlier kind is valid
EntryAtFunctionDef ==
    /\ lex = NewLexer(0)
    /\ pc = "function_def"
    /\ returned = "running"
    /\ result_symbol = "unset"
    /\ tried = <<>>
    /\ Created

\* The state in which the scan function reaches the implicit-concatenation
\* block when no earlier kind is valid
EntryAtImplicitConcat ==
    /\ lex = NewLexer(0)
    /\ pc = "implicit_concat"
    /\ returned = "running"
    /\ result_symbol = "unset"
    /\ tried = <<>>
    /\ Created

\* The state in which the scan function reaches the continuation-start
\* block when no earlier kind is valid
EntryAtContinuationStart ==
    /\ lex = NewLexer(0)
    /\ pc = "continuation_start"
    /\ returned = "running"
    /\ result_symbol = "unset"
    /\ tried = <<>>
    /\ Created

\* The state in which the scan function reaches the continuation-newline
\* block when no earlier kind is valid
EntryAtContinuationNewline ==
    /\ lex = NewLexer(0)
    /\ pc = "continuation_newline"
    /\ returned = "running"
    /\ result_symbol = "unset"
    /\ tried = <<>>
    /\ Created

\* The state in which the host calls the scan function
Entry ==
    /\ lex = NewLexer(0)
    /\ pc = "optional_marker"
    /\ returned = "running"
    /\ result_symbol = "unset"
    /\ tried = <<>>
    /\ Created

\* ------------------------------------------------------ inputs and bounds

\* All strings over an alphabet up to a length
Strings(alphabet, n) == UNION { [1..k -> alphabet] : k \in 0..n }

\* What an uninitialized buffer may hold after the written bytes
JunkValues == { <<>>, <<"x">> }

\* valid_symbols vectors: every subset of the six kinds of the scanner, and
\* the two extra externals of the grammar alone or with one kind
ValidSets ==
    (SUBSET TokenType)
        \cup {ExtraExternals}
        \cup { {k} \cup ExtraExternals : k \in TokenType }

\* Dispatcher inputs: a short run of characters the early recognizers
\* advance over, then a text one of the recognizers accepts or declines
MaxPrefix == 2

PrefixAlphabet == {"?", SP, LF}

DispatchCores ==
    { <<>>,
      <<")">>,
      <<",">>,
      <<DQ, "b", DQ>>,
      <<"+", "x">>,
      <<"+", "+">>,
      <<"(", SP, "c", LF>>,
      <<"(">>,
      <<"(", "x", LF>>,
      <<"f", "(", ")", "{">>,
      <<"i", "f", "(", ")", "{">>,
      <<NUL, LF>> }

DispatchInputs ==
    { p \o c : p \in Strings(PrefixAlphabet, MaxPrefix), c \in DispatchCores }

Init ==
    /\ input \in DispatchInputs
    /\ valid \in ValidSets
    /\ junk \in JunkValues
    /\ Entry

Spec == Init /\ [][Next]_vars

\* Short inputs for the termination check: line terminators at the end of
\* the input, an unbalanced parenthesis after a name
MaxTermLen == 2

TermAlphabet == {LF, SP, "f", "("}

\* One kind valid at a time, none, or all six
TermValidSets == { {k} : k \in TokenType } \cup { {}, TokenType }

TermInit ==
    /\ input \in Strings(TermAlphabet, MaxTermLen)
    /\ valid \in TermValidSets
    /\ junk = <<>>
    /\ Entry

\* The scan function runs to its return: the host calls it synchronously
\* and nothing else is scheduled, so a step that can be taken is taken.
TermSpec == TermInit /\ [][Next]_vars /\ WF_vars(Next)

\* ===================================================================
\* Properties of the dispatcher (checked under Spec and TermSpec)
\* ===================================================================

\* The priority order the specification states
Priority ==
    <<OPTIONAL_MARKER, EMPTY_ARG, IMPLICIT_CONCAT_MARKER,
      CONTINUATION_SECTION_START, CONTINUATION_NEWLINE, FUNCTION_DEF_MARKER>>

Rank(kind) == CHOOSE i \in DOMAIN Priority : Priority[i] = kind

\* The end of the run of line terminators at the cursor, where skip_eol
\* stops when it stops
RECURSIVE EolRunEnd(_, _)
EolRunEnd(s, l) ==
    IF ~is_eof(s, l) /\ is_eol(lookahead(s, l))
    THEN EolRunEnd(s, advance(s, l, TRUE))
    ELSE l

\* What the recognizer of a kind answers when called with lexer l
Recognize(kind, s, l, j) ==
    CASE kind = OPTIONAL_MARKER -> is_optional_marker(s, l)
      [] kind = EMPTY_ARG -> is_empty_arg(s, l)
      [] kind = IMPLICIT_CONCAT_MARKER -> is_implicit_concatenation(s, l, j)
      [] kind = CONTINUATION_SECTION_START -> is_continuation_start(s, l)
      [] kind = CONTINUATION_NEWLINE ->
            LET h == skip_horizontal_ws(s, l).lex
            IN  IF ~is_eof(s, h) /\ is_eol(lookahead(s, h))
                THEN Verdict(TRUE, mark_end(EolRunEnd(s, h)))
                ELSE Verdict(FALSE, h)
      [] kind = FUNCTION_DEF_MARKER -> is_function_declaration(s, l, j)

\* One recognizer run alone from the position where the call began, as the
\* scan function runs it when only its kind is valid
Alone(kind) ==
    Recognize(kind, input,
              IF kind = OPTIONAL_MARKER
              THEN NewLexer(0) ELSE mark_end(NewLexer(0)),
              junk)

FirstOf(kinds) == CHOOSE k \in kinds : \A o \in kinds : Rank(k) <= Rank(o)

\* C1: within one call every recognizer that is attempted sees the cursor
\* where the call began, and the kind and commit point reported are those
\* of the first valid recognizer that matches when run alone from there.
C1_DeclinedAdvanceInvisible ==
    /\ \A i \in DOMAIN tried : tried[i].from.pos = 0
    /\ pc = "done" =>
         LET matching == { k \in valid \cap TokenType : Alone(k).ok }
         IN  IF matching = {}
             THEN returned = "false"
             ELSE /\ returned = "true"
                  /\ result_symbol = FirstOf(matching)
                  /\ TokenEnd(lex) = TokenEnd(Alone(FirstOf(matching)).lex)

\* C2: when the optional-marker recognizer rejects an input that starts
\* with ?, no token the same call reports ends beyond the ?.
C2_RejectedMarkerNotCommitted ==
    ( /\ pc = "done"
      /\ returned = "true"
      /\ tried[1].kind = OPTIONAL_MARKER
      /\ ~tried[1].ok
      /\ input # <<>>
      /\ input[1] = "?" )
        => TokenEnd(lex) <= 1

\* C3: every call of the scan function returns.
C3_ScanTerminates == <>(pc = "done")

\* C4: recognizers are tried in the priority order, each valid one at most
\* once; a call that returns true reports the first valid kind whose
\* recognizer matched where it was tried, and a call that returns false has
\* tried every valid kind.
C4_PriorityOrder ==
    /\ \A i, j \in DOMAIN tried :
          i < j => /\ Rank(tried[i].kind) < Rank(tried[j].kind)
                   /\ tried[i].ok = FALSE
    /\ \A i \in DOMAIN tried :
          tried[i].ok = Recognize(tried[i].kind, input,
                           IF tried[i].kind = OPTIONAL_MARKER
                           THEN tried[i].from ELSE mark_end(tried[i].from),
                           junk).ok
    /\ returned = "true" =>
          /\ tried # <<>>
          /\ tried[Len(tried)].ok = TRUE
          /\ result_symbol = tried[Len(tried)].kind
          /\ \A k \in valid \cap TokenType :
                Rank(k) < Rank(result_symbol) =>
                   \E i \in DOMAIN tried : tried[i].kind = k /\ ~tried[i].ok
    /\ returned = "false" =>
          \A k \in valid \cap TokenType :
             \E i \in DOMAIN tried : tried[i].kind = k /\ tried[i].ok = FALSE

\* A call in which two earlier valid recognizers declined and a later one
\* was reported
C4_Witness ==
    /\ returned = "true"
    /\ Len(tried) >= 3
    /\ result_symbol = FUNCTION_DEF_MARKER

\* C5: no recognizer runs for a kind outside the valid set: the cursor and
\* the commit point move only through attempts of valid kinds, a reported
\* kind is valid, and with none of the six kinds valid the call returns
\* false with the lexer untouched.
C5_OnlyValidKinds ==
    /\ \A i \in DOMAIN tried : tried[i].kind \in valid
    /\ pc # "skip_eol" =>
          lex = IF tried = <<>> THEN NewLexer(0) ELSE tried[Len(tried)].to
    /\ returned = "true" => result_symbol \in valid \cap TokenType
    /\ valid \cap TokenType = {} =>
          /\ lex = NewLexer(0)
          /\ returned # "true"
          /\ tried = <<>>

\* A finished call on an input the optional-marker recognizer would accept,
\* with only the extra externals valid
C5_Witness ==
    /\ pc = "done"
    /\ valid = ExtraExternals
    /\ returned = "false"
    /\ is_optional_marker(input, NewLexer(0)).ok

\* ===================================================================
\* The optional-marker recognizer (checked under OptSpec)
\* ===================================================================

MaxOptLen == 3

OptAlphabet == {"?", SP, TAB, CR, LF, ")", "]", "}", ",", ":", "a", NUL}

\* The scan function called with OPTIONAL_MARKER valid, on every short text
OptInit ==
    /\ input \in Strings(OptAlphabet, MaxOptLen)
    /\ valid \in { {OPTIONAL_MARKER}, TokenType }
    /\ junk = <<>>
    /\ Entry

OptSpec == OptInit /\ [][TryOptionalMarker]_vars

\* The index of the first character after the ? that is not a space, tab,
\* carriage return or line feed; Len(s) + 1 when there is none
FollowerIndex(s) ==
    CHOOSE n \in 2..(Len(s) + 1) :
        /\ \A i \in 2..(n - 1) : s[i] \in {SP, TAB, CR, LF}
        /\ n <= Len(s) => s[n] \notin {SP, TAB, CR, LF}

\* The contract of section 4.1, read off the text alone
MarkerExpected(s) ==
    /\ s # <<>>
    /\ s[1] = "?"
    /\ \/ FollowerIndex(s) = Len(s) + 1
       \/ s[FollowerIndex(s)] \in {")", "]", "}", ",", ":"}

\* C6: is_optional_marker succeeds if and only if the lookahead is ? and the
\* first character after it that is not whitespace is one of ) ] } , : or
\* the input is exhausted.
C6_OptionalMarkerVerdict ==
    tried # <<>> => (tried[1].ok <=> MarkerExpected(input))

\* An accepted marker with whitespace, a line break included, before the
\* follower
C6_Witness ==
    /\ tried # <<>>
    /\ tried[1].ok
    /\ Len(input) = 3
    /\ input[2] = CR
    /\ input[3] = "]"

\* C7: a reported optional marker ends where the whitespace skip after the
\* ? stopped: at the follower, which is not consumed, or at the end of the
\* input.
C7_MarkerEndsBeforeFollower ==
    (returned = "true" /\ result_symbol = OPTIONAL_MARKER) =>
        /\ TokenEnd(lex) = FollowerIndex(input) - 1
        /\ TokenEnd(lex) < Len(input) =>
              input[TokenEnd(lex) + 1] \in {")", "]", "}", ",", ":"}

\* A reported marker whose token covers ? and a space and stops at a comma
C7_Witness ==
    /\ returned = "true"
    /\ result_symbol = OPTIONAL_MARKER
    /\ TokenEnd(lex) = 2
    /\ Len(input) = 3
    /\ input[3] = ","

\* ===================================================================
\* The keyword guard of is_function_declaration (checked under FnKwSpec)
\* ===================================================================

\* The reserved words the specification lists
ReservedWords ==
    { <<"i","f">>, <<"w","h","i","l","e">>, <<"f","o","r">>,
      <<"l","o","o","p">>, <<"t","r","y">>, <<"c","a","t","c","h">>,
      <<"f","i","n","a","l","l","y">>, <<"e","l","s","e">>,
      <<"s","w","i","t","c","h">>, <<"c","a","s","e">>,
      <<"d","e","f","a","u","l","t">>, <<"g","o","t","o">>,
      <<"r","e","t","u","r","n">>, <<"b","r","e","a","k">>,
      <<"c","o","n","t","i","n","u","e">>, <<"a","s">>, <<"i","n">>,
      <<"a","n","d">>, <<"o","r">>, <<"n","o","t">>, <<"i","s">>,
      <<"c","o","n","t","a","i","n","s">> }

ToUpper(c) ==
    IF c \in LowerLetters
    THEN CHOOSE u \in UpperLetters : UpperToLower[u] = c
    ELSE c

\* Every spelling of a word in upper and lower case
Casings(w) ==
    { [i \in DOMAIN w |-> IF i \in up THEN ToUpper(w[i]) ELSE w[i]] :
        up \in SUBSET DOMAIN w }

\* Names that are not reserved: ordinary ones, and reserved words cut
\* short or extended by a character
OtherNames ==
    { <<"f">>, <<"F","o","o","_","1">>, <<"i">>, <<"i","f","f">>,
      <<"I","F","_">>, <<"w","h","i","l">>, <<"a","n","d","y">>,
      <<"c","o","n","t","a","i","n">>, <<"r","e","t","u","r","n","s">>,
      <<"i","n","t">>, <<"o","r","_">>, <<"2","i","f">> }

KwNames == (UNION { Casings(w) : w \in ReservedWords }) \cup OtherNames

KwLeading == { <<>>, <<SP>>, <<LF, TAB>> }

KwRests ==
    { <<"(", "x", ")", "{", "}">>,
      <<"(", ")", LF, "=", ">", "x">>,
      <<SP, "(", "x", ")", "{">>,
      <<"(", "x">>,
      <<>> }

FnKwInit ==
    /\ input \in { g \o n \o r : g \in KwLeading, n \in KwNames, r \in KwRests }
    /\ valid \in { {FUNCTION_DEF_MARKER}, {FUNCTION_DEF_MARKER} \cup ExtraExternals }
    /\ junk \in JunkValues
    /\ EntryAtFunctionDef

FnKwSpec == FnKwInit /\ [][TryFunctionDef \/ ReturnFalse]_vars

Blank(c) == c \in {SP, TAB, CR, LF}

Lowered(w) == [i \in DOMAIN w |-> tolower(w[i])]

\* The first index at or after i whose character is not blank
\* (Len(s) + 1 when there is none)
NextNonBlank(s, i) ==
    CHOOSE n \in i..(Len(s) + 1) :
        /\ \A k \in i..(n - 1) : Blank(s[k])
        /\ n <= Len(s) => ~Blank(s[n])

\* The first index at or after i whose character cannot be part of an
\* identifier (Len(s) + 1 when there is none)
IdentifierEnd(s, i) ==
    CHOOSE n \in i..(Len(s) + 1) :
        /\ \A k \in i..(n - 1) : is_identifier_char(s[k])
        /\ n <= Len(s) => ~is_identifier_char(s[n])

\* The first identifier of a text: the identifier characters that follow
\* the leading whitespace
FirstIdentifier(s) ==
    SubSeq(s, NextNonBlank(s, 1), IdentifierEnd(s, NextNonBlank(s, 1)) - 1)

\* C8: when the first identifier is, in any mix of cases, one of the
\* reserved words, is_function_declaration rejects whatever follows.
C8_KeywordGuard ==
    (tried # <<>> /\ Lowered(FirstIdentifier(input)) \in ReservedWords)
        => ~tried[1].ok

\* A rejected text in which a reserved word in mixed case is followed by
\* what would make any other name a declaration
C8_Witness ==
    /\ tried # <<>>
    /\ ~tried[1].ok
    /\ input = <<"I", "f", "(", "x", ")", "{", "}">>

\* ===================================================================
\* Parenthesis matching and whitespace in is_function_declaration
\* (checked under FnSpec)
\* ===================================================================

MaxMid == 4

MidAlphabet == {"(", ")", "a", SP, NUL}

FnLeading == { <<>>, <<LF>> }

FnGaps == { <<>>, <<SP>> }

FnBeforeBody == { <<>>, <<LF>> }

FnTails ==
    { <<>>, <<"{">>, <<"=", ">">>, <<"=">>, <<"=", SP, ">">>, <<"x">> }

\* A name, then a text of parentheses, blanks and other characters, then
\* the start of a body or something else, with whitespace in between
FnInputs ==
    { g0 \o <<"f">> \o g1 \o mid \o g2 \o tail :
        g0 \in FnLeading, g1 \in FnGaps, mid \in Strings(MidAlphabet, MaxMid),
        g2 \in FnBeforeBody, tail \in FnTails }

FnInit ==
    /\ input \in FnInputs
    /\ valid = {FUNCTION_DEF_MARKER}
    /\ junk = <<>>
    /\ EntryAtFunctionDef

FnSpec == FnInit /\ [][TryFunctionDef \/ ReturnFalse]_vars

\* Open minus closing parentheses among s[p..i]
ParenDepth(s, p, i) ==
    Cardinality({ k \in p..i : s[k] = "(" })
        - Cardinality({ k \in p..i : s[k] = ")" })

\* The index of the parenthesis that closes the one at p; 0 when the input
\* ends first
ClosingIndex(s, p) ==
    IF \E c \in p..Len(s) : ParenDepth(s, p, c) = 0
    THEN CHOOSE c \in p..Len(s) :
            /\ ParenDepth(s, p, c) = 0
            /\ \A k \in p..(c - 1) : ParenDepth(s, p, k) # 0
    ELSE 0

\* s has { or => at index n
BodyStartsAt(s, n) ==
    /\ n <= Len(s)
    /\ \/ s[n] = "{"
       \/ s[n] = "=" /\ n + 1 <= Len(s) /\ s[n + 1] = ">"

\* The rule of section 4.2 from the end of the name at index p on
ParenthesesExpected(s, p) ==
    /\ p <= Len(s)
    /\ s[p] = "("
    /\ ClosingIndex(s, p) # 0
    /\ BodyStartsAt(s, NextNonBlank(s, ClosingIndex(s, p) + 1))

NameEnd(s) == IdentifierEnd(s, NextNonBlank(s, 1))

OrdinaryName(w) ==
    /\ w # <<>>
    /\ Lowered(w) \notin ReservedWords
    /\ Lowered(w) \notin {StaticKeyword, <<"t","h","r","o","w">>}

\* C9: after an ordinary name, is_function_declaration succeeds if and only
\* if a ( follows, the parenthesis depth returns to zero before the input
\* ends, and after the whitespace that follows the matching ) come { or =>.
C9_ParenthesisMatching ==
    (tried # <<>> /\ OrdinaryName(FirstIdentifier(input)))
        => (tried[1].ok <=> ParenthesesExpected(input, NameEnd(input)))

\* The text with the whitespace taken out before the name, inside the
\* parentheses and between the closing parenthesis and what follows it;
\* gap tells whether the whitespace between the name and ( goes too.
Unblanked(w) == SelectSeq(w, LAMBDA c : ~Blank(c))

Squeezed(s, gap) ==
    LET a == NextNonBlank(s, 1)
        b == IdentifierEnd(s, a)
        p == IF gap THEN NextNonBlank(s, b) ELSE b
        c == IF p <= Len(s) /\ s[p] = "(" THEN ClosingIndex(s, p) ELSE 0
    IN  IF c = 0
        THEN SubSeq(s, a, b - 1) \o SubSeq(s, p, Len(s))
        ELSE SubSeq(s, a, b - 1)
                \o Unblanked(SubSeq(s, p, c))
                \o SubSeq(s, NextNonBlank(s, c + 1), Len(s))

Accepts(s) == is_function_declaration(s, mark_end(NewLexer(0)), junk).ok

\* C10 as stated: whitespace before the name, between the name and (,
\* inside the parentheses or between ) and the body does not change a
\* successful verdict.
C10_WhitespaceInsensitive ==
    (tried # <<>> /\ OrdinaryName(FirstIdentifier(input))
        /\ Accepts(Squeezed(input, TRUE)))
            => tried[1].ok

\* C10 as amended: whitespace before the name, inside the parentheses or
\* between ) and the body does not change the verdict; whitespace between
\* the name and ( makes the recognizer decline.
C10_WhitespaceInsensitiveButBeforeParen ==
    (tried # <<>> /\ OrdinaryName(FirstIdentifier(input))) =>
        /\ tried[1].ok = Accepts(Squeezed(input, FALSE))
        /\ (NameEnd(input) <= Len(input) /\ Blank(input[NameEnd(input)]))
              => ~tried[1].ok

\* An accepted declaration with whitespace before the name, inside the
\* parentheses and, as a line break, before the arrow
C10_Witness ==
    /\ tried # <<>>
    /\ tried[1].ok
    /\ input = <<LF, "f", "(", SP, "a", ")", LF, "=", ">">>

\* ===================================================================
\* The static branch of is_function_declaration (checked under StaticSpec)
\* ===================================================================

MaxGap == 2

GapAlphabet == {SP, TAB, LF}

StaticSpellings ==
    { <<"s","t","a","t","i","c">>, <<"S","T","A","T","I","C">>,
      <<"S","t","a","t","i","c">>, <<"s","T","a","T","i","C">>,
      <<"s","t","a","t","i","c","s">>, <<"s","t","a","t","i">>, <<"f">> }

StaticSecondNames == { <<>>, <<"f">>, <<"i","f">>, <<"g","_","1">> }

StaticRests ==
    { <<"(", "x", ")", "{">>,
      <<"(", "x", ")">>,
      <<"(">>,
      <<"(", ")", LF, "=", ">">>,
      <<SP, "(", "x", ")", "{">>,
      <<>> }

\* A first word, a gap of blanks, a second word or none, then what would
\* make an ordinary name a declaration or not
StaticInputs ==
    { g0 \o w \o g \o n \o r :
        g0 \in FnLeading, w \in StaticSpellings,
        g \in Strings(GapAlphabet, MaxGap), n \in StaticSecondNames,
        r \in StaticRests }

StaticInit ==
    /\ input \in StaticInputs
    /\ valid = {FUNCTION_DEF_MARKER}
    /\ junk \in JunkValues
    /\ EntryAtFunctionDef

StaticSpec == StaticInit /\ [][TryFunctionDef \/ ReturnFalse]_vars

\* The first index at or after i whose character is not a space or a tab
\* (Len(s) + 1 when there is none)
HwsEnd(s, i) ==
    CHOOSE n \in i..(Len(s) + 1) :
        /\ \A k \in i..(n - 1) : s[k] \in {SP, TAB}
        /\ n <= Len(s) => s[n] \notin {SP, TAB}

\* The rule for a text whose first identifier is static: a space or tab
\* follows it, then a name, then the parentheses and the body
StaticExpected(s) ==
    LET e == NameEnd(s)
        h == HwsEnd(s, e)
        n == IdentifierEnd(s, h)
    IN  /\ h > e
        /\ n > h
        /\ ParenthesesExpected(s, n)

\* C11: when the first identifier is static in any mix of cases,
\* is_function_declaration succeeds if and only if at least one space or tab
\* follows it, then a non-empty second identifier, whatever word that is,
\* then the parentheses and the body; static( and static ( are rejected.
C11_StaticNeedsSpaceAndName ==
    (tried # <<>> /\ Lowered(FirstIdentifier(input)) = StaticKeyword)
        => (tried[1].ok <=> StaticExpected(input))

\* An accepted declaration whose name after static is a reserved word
C11_Witness ==
    /\ tried # <<>>
    /\ tried[1].ok
    /\ input = <<"S","t","a","t","i","c", TAB, "i","f", "(", "x", ")", "{">>

\* ===================================================================
\* The empty-argument recognizer (checked under EmptySpec)
\* ===================================================================

MaxEmptyLen == 3

EmptyAlphabet == {SP, TAB, LF, CR, ",", "a", "?", NUL}

\* The scan function called with EMPTY_ARG valid, alone or after the
\* optional-marker block
EmptyInit ==
    /\ input \in Strings(EmptyAlphabet, MaxEmptyLen)
    /\ valid \in { {EMPTY_ARG}, {OPTIONAL_MARKER, EMPTY_ARG},
                   {EMPTY_ARG} \cup ExtraExternals }
    /\ junk = <<>>
    /\ Entry

EmptySpec == EmptyInit /\ [][TryOptionalMarker \/ TryEmptyArg]_vars

\* s has a comma at index n
CommaAt(s, n) == n <= Len(s) /\ s[n] = ","

\* C12: is_empty_arg succeeds if and only if the first character that is
\* not whitespace is a comma; the cursor stops on that character, so the
\* comma is never consumed; a reported empty argument is a zero-width token
\* that ends where the dispatcher marked before the recognizer ran, before
\* the whitespace and the comma.
C12_EmptyArgZeroWidth ==
    \A i \in DOMAIN tried :
        tried[i].kind = EMPTY_ARG =>
            LET n == NextNonBlank(input, tried[i].from.pos + 1)
            IN  /\ tried[i].ok <=> CommaAt(input, n)
                /\ tried[i].to.pos = n - 1
                /\ tried[i].ok =>
                      /\ returned = "true"
                      /\ result_symbol = EMPTY_ARG
                      /\ TokenEnd(lex) = tried[i].from.pos
                      /\ tried[i].from.pos = 0
                      /\ TokenEnd(lex) < n

\* A reported empty argument with whitespace, a line break included, before
\* the comma: the token ends at 0 and the cursor is on the comma
C12_Witness ==
    /\ returned = "true"
    /\ result_symbol = EMPTY_ARG
    /\ input = <<SP, LF, ",">>
    /\ TokenEnd(lex) = 0
    /\ lex.pos = 2

\* ===================================================================
\* The implicit-concatenation recognizer (checked under ConcatSpec)
\* ===================================================================

MaxConcatTail == 2

ConcatLeading == { <<>>, <<SP>>, <<TAB>>, <<SP, TAB>> }

\* What can come first after the whitespace: the operator starts, the
\* signs, what starts an operand, and what does neither
ConcatFirstChars ==
    {"?", "*", "/", "<", ">", "=", "^", "|", "&", "!", "~", ":", ".", ",",
     "+", "-", "b", "_", "7", DQ, SQ, "(", "%",
     "[", "{", ")", ";", LF, CR, NUL}

ConcatTailAlphabet == {"+", "-", SP, "b", NUL}

\* The verbal operators the specification lists
VerbalOperators ==
    { <<"a","n","d">>, <<"o","r">>, <<"n","o","t">>, <<"i","s">>,
      <<"c","o","n","t","a","i","n","s">> }

\* Words that are not verbal operators: operators cut short or extended,
\* and names that only share a first letter with one
ConcatOtherWords ==
    { <<"a","n","d","y">>, <<"A","N","D","Y">>, <<"n","o","t","a">>,
      <<"i","s","x","1">>, <<"i","s","s">>, <<"o","r","t">>,
      <<"a","n">>, <<"o">>, <<"c">>, <<"c","o","n">>, <<"c","o","n","t">>,
      <<"c","o","n","t","a","i","n">>,
      <<"c","o","n","t","a","i","n","s","x">>,
      <<"c","o","n","x","y","z","u","v">>,
      <<"i","n">>, <<"a","1">>, <<"n","_">>, <<"x">> }

ConcatWords ==
    (UNION { Casings(w) : w \in VerbalOperators }) \cup ConcatOtherWords

ConcatAfterWord == { <<>>, <<SP, "y">>, <<"(">> }

ConcatInputs ==
    { g \o t : g \in ConcatLeading, t \in Strings(ConcatTailAlphabet, 1) }
    \cup { g \o <<c>> \o t :
             g \in ConcatLeading, c \in ConcatFirstChars,
             t \in Strings(ConcatTailAlphabet, MaxConcatTail) }
    \cup { g \o w \o a :
             g \in ConcatLeading, w \in ConcatWords, a \in ConcatAfterWord }

\* What char ident[4] and the bytes after it may hold when the identifier
\* does not leave room for the terminator
ConcatJunkValues == JunkValues \cup { <<"t","a","i","n","s">> }

ConcatInit ==
    /\ input \in ConcatInputs
    /\ valid = {IMPLICIT_CONCAT_MARKER}
    /\ junk \in ConcatJunkValues
    /\ EntryAtImplicitConcat

ConcatSpec == ConcatInit /\ [][TryImplicitConcat]_vars

\* The index of the first character after the run of spaces and tabs at
\* the cursor: the run is empty when this is 1
AfterWs == HwsEnd(input, 1)

\* The recognizer has run on a text that starts with a space or a tab
ConcatTried == tried # <<>> /\ AfterWs > 1

\* The character after the whitespace run; NUL when the input ends there
FirstChar == IF AfterWs <= Len(input) THEN input[AfterWs] ELSE NUL

\* The identifier that starts after the whitespace run
FirstWord == SubSeq(input, AfterWs, IdentifierEnd(input, AfterWs) - 1)

\* C13: when the whitespace is followed by an identifier that is, in any
\* mix of cases, one of and, or, not, is, contains, the recognizer rejects.
C13_VerbalOperatorGuard ==
    (ConcatTried /\ Lowered(FirstWord) \in VerbalOperators) => ~tried[1].ok

\* An identifier that begins with a verbal operator and goes on
ExtendsVerbalOperator(w) ==
    \E k \in VerbalOperators :
        /\ Len(w) > Len(k)
        /\ Lowered(SubSeq(w, 1, Len(k))) = k

\* C14: whatever the capture buffer held before, an identifier that begins
\* with a verbal operator and is longer does not compare as that operator
\* (the recognizer accepts it as an operand), and an identifier that is
\* exactly a verbal operator does (the recognizer rejects).
C14_TruncatedCaptureNeverMatches ==
    ConcatTried =>
        /\ (ExtendsVerbalOperator(FirstWord)
              /\ Lowered(FirstWord) \notin VerbalOperators) => tried[1].ok
        /\ Lowered(FirstWord) \in VerbalOperators => ~tried[1].ok

\* C15: is_implicit_concatenation rejects when no space or tab is at the
\* cursor, without moving, and rejects when the run of spaces and tabs is
\* followed by a line terminator or by the end of the input.
C15_NeedsHorizontalWhitespace ==
    tried # <<>> =>
        /\ AfterWs = 1 => (~tried[1].ok /\ tried[1].to.pos = 0)
        /\ AfterWs > Len(input) => ~tried[1].ok
        /\ (AfterWs <= Len(input) /\ input[AfterWs] \in {CR, LF})
              => ~tried[1].ok

\* A rejected text in which a space and a tab are followed by a line feed
C15_Witness ==
    /\ tried # <<>>
    /\ ~tried[1].ok
    /\ input = <<SP, TAB, LF>>

\* The operator starts the specification lists
OperatorStarts ==
    {"?", "*", "/", "<", ">", "=", "^", "|", "&", "!", "~", ":", ".", ","}

\* C16: the recognizer rejects whenever the character after the whitespace
\* is one of ? * / < > = ^ | & ! ~ : . , whatever follows it; + and - are
\* not rejected as operators: a sign with an identifier character right
\* after it is accepted.
C16_OperatorStartRejects ==
    ConcatTried =>
        /\ FirstChar \in OperatorStarts => ~tried[1].ok
        /\ (FirstChar \in {"+", "-"}
              /\ AfterWs < Len(input)
              /\ is_identifier_char(input[AfterWs + 1])) => tried[1].ok

\* A rejected text in which whitespace is followed by a dot and an operand
C16_Witness ==
    /\ tried # <<>>
    /\ ~tried[1].ok
    /\ input = <<SP, ".", SP, "b">>

\* What can start an expression according to the specification
ExpressionStarts ==
    LowerLetters \cup UpperLetters \cup Digits
        \cup {"_", DQ, SQ, "(", "%", "+", "-"}

\* The text has a + or - after the whitespace run
SignCase == ConcatTried /\ FirstChar \in {"+", "-"}

\* C17: when the character after the whitespace is + or -, the recognizer
\* succeeds if and only if the sign is followed by a character that is not
\* a space or tab, is not the same sign again and can start an expression;
\* at the end of the input it rejects.
C17_SignVerdict ==
    SignCase =>
        ( tried[1].ok <=>
            /\ AfterWs < Len(input)
            /\ input[AfterWs + 1] \notin {SP, TAB}
            /\ input[AfterWs + 1] # FirstChar
            /\ input[AfterWs + 1] \in ExpressionStarts )

\* An accepted text in which a minus is followed by a plus
C17_Witness ==
    /\ tried # <<>>
    /\ tried[1].ok
    /\ input = <<SP, "-", "+", "b">>

\* C18 as stated: in the sign sub-rule the commit point the recognizer
\* marks lies after the sign, when it then succeeds and when it rejects.
C18_CommitAfterSign ==
    SignCase => tried[1].to.mark = AfterWs

\* C18 as amended: in the sign sub-rule the recognizer marks the commit
\* point at the end of the whitespace run, before the sign, and then
\* advances over the sign only to look at what follows; the mark stays
\* before the sign when it succeeds and when it rejects, and a reported
\* marker ends there, the sign left to the operand.
C18_CommitBeforeSign ==
    SignCase =>
        /\ tried[1].to.mark = AfterWs - 1
        /\ tried[1].to.pos >= AfterWs
        /\ tried[1].ok =>
              /\ returned = "true"
              /\ result_symbol = IMPLICIT_CONCAT_MARKER
              /\ TokenEnd(lex) = AfterWs - 1
              /\ input[TokenEnd(lex) + 1] \in {"+", "-"}

\* A reported marker that covers two blanks and ends before the plus
C18_Witness ==
    /\ returned = "true"
    /\ result_symbol = IMPLICIT_CONCAT_MARKER
    /\ input = <<SP, TAB, "+", "b">>
    /\ TokenEnd(lex) = 2
    /\ lex.pos = 3

\* C19: for a character after the whitespace that is neither a sign nor an
\* operator start, the recognizer succeeds if and only if the character can
\* start an expression and the identifier it begins is not a verbal
\* operator; on success the commit point is the end of the whitespace run.
C19_OperandStartVerdict ==
    ( /\ ConcatTried
      /\ AfterWs <= Len(input)
      /\ FirstChar \notin OperatorStarts \cup {"+", "-"} )
        => /\ tried[1].ok <=>
                /\ FirstChar \in ExpressionStarts
                /\ Lowered(FirstWord) \notin VerbalOperators
           /\ tried[1].ok => tried[1].to.mark = AfterWs - 1

\* ===================================================================
\* The continuation-section-start recognizer (checked under ContSpec)
\* ===================================================================

MaxContRest == 2

ContLeading == { <<>>, <<SP>>, <<TAB, SP>> }

ContTerminators == { <<>>, <<LF>>, <<CR>>, <<CR, LF>>, <<NUL>>, <<"x">> }

ContGaps == { <<>>, <<SP>>, <<LF, TAB>> }

ContOpeners == { <<"(">>, <<"[">>, <<>> }

ContRestAlphabet == {"c", "j", SP, LF, "x"}

MaxMoreOptions == 1

\* Option tokens, the accepted spellings and near misses
ContTokens ==
    { <<"j","o","i","n">>, <<"J","o","i","n">>, <<"J","O","I","N","E","D">>,
      <<"j","o","i","n",",">>, <<"j","o","i","n","|","(">>,
      <<"j","o","i","n",NUL,"x">>,
      <<"j","o">>, <<"j","o","i">>, <<"j">>, <<"j","i","o","n","s">>,
      <<"c","o","m","m","e","n","t","s">>, <<"C","o","m","m","e","n","t">>,
      <<"C","O","M">>, <<"c">>, <<"c","o","m","m">>,
      <<"c","o","m","m","e","n","t","s","x">>,
      <<"c","o","m","m","e","n","t","s","_","1","2">>, <<"c","1">>,
      <<"l","t","r","i","m">>, <<"L","T","r","i","m","0">>,
      <<"r","t","r","i","m","0">>, <<"r","t","r","i","m">>,
      <<"l","e","f","t">>, <<"l","t","r","i","m","1">>, <<"r">>,
      <<BACKTICK>>, <<"f","o","o">>, <<",">>, <<"(">>, <<"_","c">> }

\* Tokens that may follow the first one, with or without a space between
ContMoreTokens ==
    { <<"c">>, <<BACKTICK>>, <<"j","o","i","n",",">>, <<"l","t","r","i","m">>,
      <<"x">> }

ContSeparators == { <<>>, <<SP>> }

RECURSIVE ContMoreRuns(_)
ContMoreRuns(n) ==
    IF n = 0
    THEN { <<>> }
    ELSE ContMoreRuns(n - 1)
            \cup { r \o p \o k : r \in ContMoreRuns(n - 1),
                                 p \in ContSeparators, k \in ContMoreTokens }

\* How the option line ends: a line terminator, the end of the input, or
\* a NUL character
ContLineEnds == { <<LF>>, <<>>, <<CR, LF, "x">>, <<NUL, "x">> }

ContOpenings ==
    { <<LF, "(">>, <<LF, "(", SP>>, <<SP, CR, LF, TAB, "(", SP>> }

\* A line break, the opening parenthesis and a line of option tokens
ContOptionInputs ==
    { o \o k \o r \o p \o e :
        o \in ContOpenings, k \in ContTokens, r \in ContMoreRuns(MaxMoreOptions),
        p \in ContSeparators, e \in ContLineEnds }

\* Blanks, a line terminator or something else, more blanks, an opening
\* parenthesis or not, and what follows it on its line
ContInputs ==
    { g \o e \o w \o o \o r :
        g \in ContLeading, e \in ContTerminators, w \in ContGaps,
        o \in ContOpeners, r \in Strings(ContRestAlphabet, MaxContRest) }

ContInit ==
    /\ \/ input \in ContInputs
       \/ input \in ContOptionInputs
    /\ valid = {CONTINUATION_SECTION_START}
    /\ junk = <<>>
    /\ EntryAtContinuationStart

ContSpec == ContInit /\ [][TryContinuationStart]_vars

\* C20: is_continuation_start rejects unless the run of spaces and tabs at
\* the cursor is followed by a line terminator, so a ( on the current line
\* declines; after the terminator it skips all whitespace and rejects
\* unless the next character is (, after which it marks the commit point.
C20_NeedsLeadingLineTerminator ==
    tried # <<>> =>
        /\ (AfterWs > Len(input) \/ input[AfterWs] \notin {CR, LF})
              => ~tried[1].ok
        /\ tried[1].ok =>
              LET n == NextNonBlank(input, AfterWs)
              IN  /\ n <= Len(input)
                  /\ input[n] = "("
                  /\ tried[1].to.mark = n

\* A rejected text whose ( and option are on the current line
C20_Witness ==
    /\ tried # <<>>
    /\ ~tried[1].ok
    /\ input = <<SP, "(", "c", LF>>

\* The index of the ( that opens the section: the first character that is
\* not blank after the run of spaces and tabs at the cursor
OpenIndex == NextNonBlank(input, AfterWs)

\* The text starts with spaces and tabs, a line terminator, blanks and (
SectionOpened ==
    /\ tried # <<>>
    /\ AfterWs <= Len(input)
    /\ input[AfterWs] \in {CR, LF}
    /\ OpenIndex <= Len(input)
    /\ input[OpenIndex] = "("

\* The first index at or after i whose character is blank
\* (Len(s) + 1 when there is none)
NonBlankEnd(s, i) ==
    CHOOSE n \in i..(Len(s) + 1) :
        /\ \A k \in i..(n - 1) : ~Blank(s[k])
        /\ n <= Len(s) => Blank(s[n])

JoinSpelling == <<"j","o","i","n">>

CommentSpellings ==
    { <<"c","o","m","m","e","n","t","s">>, <<"c","o","m","m","e","n","t">>,
      <<"c","o","m">>, <<"c">> }

TrimSpellings ==
    { <<"l","t","r","i","m">>, <<"l","t","r","i","m","0">>,
      <<"r","t","r","i","m","0">> }

\* The first line terminator after the (; Len(input) + 1 when none
OptionLineEnd ==
    CHOOSE n \in (OpenIndex + 1)..(Len(input) + 1) :
        /\ \A k \in (OpenIndex + 1)..(n - 1) : input[k] \notin {CR, LF}
        /\ n <= Len(input) => input[n] \in {CR, LF}

\* A whitespace-separated token is one of the options of the vocabulary
TokenAccepted(t) ==
    \/ t = <<BACKTICK>>
    \/ Lowered(t) \in CommentSpellings \cup TrimSpellings
    \/ Len(t) >= 4 /\ Lowered(SubSeq(t, 1, 4)) = JoinSpelling

\* The whitespace-separated tokens between the ( and the end of its line
OptionTokens ==
    { SubSeq(input, i, NonBlankEnd(input, i) - 1) :
        i \in { k \in (OpenIndex + 1)..(OptionLineEnd - 1) :
                  /\ ~Blank(input[k])
                  /\ k = OpenIndex + 1 \/ Blank(input[k - 1]) } }

\* C21 as stated: on a ( line that ends with a line terminator, the
\* recognizer accepts if and only if every whitespace-separated token of
\* the line is one of the options.
C21_WhitespaceSeparatedOptions ==
    ( /\ SectionOpened
      /\ OptionLineEnd <= Len(input)
      /\ \A k \in OpenIndex..OptionLineEnd : input[k] # NUL )
        => (tried[1].ok <=> \A t \in OptionTokens : TokenAccepted(t))

\* The options read one after the other from index i, each followed by
\* optional spaces and tabs: "bad" at a token outside the vocabulary,
\* "eol" at a line terminator, "end" where the input ends or has a NUL
RECURSIVE OptionRun(_, _)
OptionRun(s, i) ==
    IF i > Len(s) \/ s[i] = NUL
    THEN "end"
    ELSE IF s[i] \in {CR, LF}
    THEN "eol"
    ELSE IF s[i] = BACKTICK
    THEN OptionRun(s, HwsEnd(s, i + 1))
    ELSE IF ~is_identifier_char(s[i])
    THEN "bad"
    ELSE LET e == IdentifierEnd(s, i)
             w == Lowered(SubSeq(s, i, e - 1))
         IN  IF Len(w) >= 4 /\ SubSeq(w, 1, 4) = JoinSpelling
             THEN OptionRun(s, HwsEnd(s, NonBlankEnd(s, e)))
             ELSE IF w \in CommentSpellings \cup TrimSpellings
             THEN OptionRun(s, HwsEnd(s, e))
             ELSE "bad"

\* C21 as amended: after the ( the options are read one after the other,
\* each followed by optional spaces and tabs and not necessarily separated
\* by them; a token outside the vocabulary before the end of the line makes
\* the recognizer reject, and a line of accepted options that ends with a
\* line terminator makes it accept.
C21_OptionSequence ==
    SectionOpened =>
        LET run == OptionRun(input, HwsEnd(input, OpenIndex + 1))
        IN  /\ run = "bad" => ~tried[1].ok
            /\ run = "eol" => tried[1].ok

\* An accepted line in which a backtick follows the comment option with no
\* whitespace between them
C21_Witness ==
    /\ tried # <<>>
    /\ tried[1].ok
    /\ input = <<LF, "(", SP, "c", BACKTICK, LF>>

\* C22: is_continuation_start succeeds only when the scan of the ( line
\* has reached a carriage return or a line feed.
C22_NeedsClosingLineTerminator ==
    (tried # <<>> /\ tried[1].ok) =>
        /\ tried[1].to.pos < Len(input)
        /\ input[tried[1].to.pos + 1] \in {CR, LF}

\* C23: a reported continuation-section start ends right after the (:
\* the blanks, the line terminators and the ( are in the token, the
\* options inspected on the rest of the line and its terminator are not.
C23_CommitAfterParen ==
    (tried # <<>> /\ tried[1].ok) =>
        /\ returned = "true"
        /\ result_symbol = CONTINUATION_SECTION_START
        /\ TokenEnd(lex) = OpenIndex
        /\ input[TokenEnd(lex)] = "("
        /\ \A k \in 1..(TokenEnd(lex) - 1) : Blank(input[k])
        /\ lex.pos >= HwsEnd(input, OpenIndex + 1) - 1

\* A reported start whose token ends after the ( at 2 while the cursor has
\* gone over two options to the line feed at 11
C23_Witness ==
    /\ returned = "true"
    /\ result_symbol = CONTINUATION_SECTION_START
    /\ input = <<LF, "(", SP, "j","o","i","n",",", SP, "c", LF>>
    /\ TokenEnd(lex) = 2
    /\ lex.pos = 10

\* ===================================================================
\* The continuation-newline recognizer (checked under NewlineSpec)
\* ===================================================================

MaxNewlineLen == 3

NewlineAlphabet == {LF, CR, SP, TAB, "x", NUL}

NewlineInit ==
    /\ input \in Strings(NewlineAlphabet, MaxNewlineLen)
    /\ valid = {CONTINUATION_NEWLINE}
    /\ junk = <<>>
    /\ EntryAtContinuationNewline

NewlineNext == TryContinuationNewline \/ SkipEolStep \/ SkipEolExit

\* The host waits for the call to return and nothing else runs, so a step
\* of the recognizer that can be taken is taken.
NewlineSpec == NewlineInit /\ [][NewlineNext]_vars /\ WF_vars(NewlineNext)

\* A carriage return or line feed follows the spaces and tabs at the cursor
TerminatorFollows ==
    /\ AfterWs <= Len(input)
    /\ input[AfterWs] \in {CR, LF}

\* C24: scan_continuation_newline skips spaces and tabs and succeeds if and
\* only if a line terminator follows: it fails at the end of the input and
\* on any other character, and when a terminator follows the call returns
\* true with a token that ends after a terminator, before the spaces and
\* tabs of the next line.
C24_NewlineVerdict ==
    /\ [](~TerminatorFollows => returned # "true")
    /\ [](returned = "true" =>
            /\ TokenEnd(lex) >= AfterWs
            /\ input[TokenEnd(lex)] \in {CR, LF})
    /\ (TerminatorFollows ~> returned = "true")

\* The first index at or after i whose character is not a carriage return
\* or a line feed (Len(s) + 1 when there is none)
TerminatorRunEnd(s, i) ==
    CHOOSE n \in i..(Len(s) + 1) :
        /\ \A k \in i..(n - 1) : s[k] \in {CR, LF}
        /\ n <= Len(s) => s[n] \notin {CR, LF}

\* C30: a reported continuation newline ends right after the last
\* character of the maximal run of carriage returns and line feeds that
\* follows the spaces and tabs at the cursor; a space or tab inside the
\* run ends the token before it.
C30_WholeTerminatorRun ==
    (returned = "true" /\ result_symbol = CONTINUATION_NEWLINE) =>
        TokenEnd(lex) = TerminatorRunEnd(input, AfterWs) - 1

\* ===================================================================
\* The lifecycle hooks and repeated calls (checked under LifeSpec)
\* ===================================================================

MaxFinished == 3

\* No call of the scan function is in progress
BeforeCall == pc = "optional_marker"

\* The record of a hook that has returned; bytes is what serialize wrote
Hook(name, n) ==
    [ev |-> name, verdict |-> "none", symbol |-> "none", end |-> 0,
     bytes |-> n]

\* The record of the call of the scan function that has just returned
ScanResult ==
    [ev |-> "scan", verdict |-> returned, symbol |-> result_symbol,
     end |-> TokenEnd(lex), bytes |-> 0]

\* A hook that leaves everything as it is
NoOpHook(name, n) ==
    /\ BeforeCall
    /\ Len(finished) < MaxFinished
    /\ finished' = Append(finished, Hook(name, n))
    /\ UNCHANGED <<input, valid, junk, lex, pc, returned, result_symbol,
                   tried, payload>>

\* tree_sitter_autohotkey_external_scanner_create: return NULL
Create ==
    /\ BeforeCall
    /\ Len(finished) < MaxFinished
    /\ payload' = NullPayload
    /\ finished' = Append(finished, Hook("create", 0))
    /\ UNCHANGED <<input, valid, junk, lex, pc, returned, result_symbol, tried>>

\* tree_sitter_autohotkey_external_scanner_destroy: empty body
Destroy == NoOpHook("destroy", 0)

\* tree_sitter_autohotkey_external_scanner_reset: empty body
Reset == NoOpHook("reset", 0)

\* tree_sitter_autohotkey_external_scanner_serialize: return 0
Serialize == NoOpHook("serialize", 0)

\* tree_sitter_autohotkey_external_scanner_deserialize: empty body
Deserialize == NoOpHook("deserialize", 0)

\* The host calls the scan function again with the same text at the cursor
\* and the same valid_symbols; the stack holds whatever ran in between.
ScanAgain ==
    /\ pc = "done"
    /\ Len(finished) < MaxFinished
    /\ finished' = Append(finished, ScanResult)
    /\ junk' \in JunkValues
    /\ lex' = NewLexer(0)
    /\ pc' = "optional_marker"
    /\ returned' = "running"
    /\ result_symbol' = "unset"
    /\ tried' = <<>>
    /\ UNCHANGED <<input, valid, payload>>

LifeInputs ==
    { <<"?", SP, ")">>,
      <<SP, ",">>,
      <<SP, DQ, "b", DQ>>,
      <<SP, "a", "n", "d", "y">>,
      <<SP, "n", "o", "t", "a", SP, "x">>,
      <<LF, "(", SP, "c", LF>>,
      <<SP, LF, "x">>,
      <<"f", "(", ")", "{">> }

LifeValidSets ==
    { TokenType, {IMPLICIT_CONCAT_MARKER},
      {OPTIONAL_MARKER, CONTINUATION_NEWLINE, FUNCTION_DEF_MARKER} }

LifeInit ==
    /\ input \in LifeInputs
    /\ valid \in LifeValidSets
    /\ junk \in JunkValues
    /\ Entry

LifeNext ==
    \/ Next
    \/ Create
    \/ Destroy
    \/ Reset
    \/ Serialize
    \/ Deserialize
    \/ ScanAgain

LifeSpec == LifeInit /\ [][LifeNext]_vars

\* C25: the handle is empty, serialize writes nothing, and a call that
\* returns gives the verdict, the kind and the commit position that every
\* earlier call on the same text with the same valid set gave, whatever
\* hooks and calls ran in between.
C25_StatelessDeterministic ==
    /\ payload = NullPayload
    /\ \A i \in DOMAIN finished : finished[i].bytes = 0
    /\ pc = "done" =>
          \A i \in DOMAIN finished :
             finished[i].ev = "scan" =>
                /\ finished[i].verdict = returned
                /\ returned = "true" =>
                      /\ finished[i].symbol = result_symbol
                      /\ finished[i].end = TokenEnd(lex)

\* ===================================================================
\* Re-running a recognizer on the text it committed (checked under
\* RoundSpec)
\* ===================================================================

MaxTrailer == 1

TrailerAlphabet == {"x", SP}

\* Texts each recognizer accepts, and a few none accepts
RoundCores ==
    { <<"?", SP, ")">>,
      <<"?", LF>>,
      <<SP, LF, ",">>,
      <<",">>,
      <<SP, DQ, "b", DQ>>,
      <<TAB, "+", "b">>,
      <<LF, "(", LF>>,
      <<SP, CR, LF, "(", SP, "c", LF>>,
      <<LF, "x">>,
      <<SP, CR, LF, SP, "x">>,
      <<"f", "(", ")", "{">>,
      <<LF, "f", "(", "a", ")", "=", ">">>,
      <<"x">> }

RoundInit ==
    /\ input \in { c \o r : c \in RoundCores,
                            r \in Strings(TrailerAlphabet, MaxTrailer) }
    /\ valid \in { {k} : k \in TokenType }
    /\ junk \in JunkValues
    /\ Entry

\* The call succeeded: the host calls the scan function again on a text
\* that consists of the committed characters only.
Rerun ==
    /\ pc = "done"
    /\ returned = "true"
    /\ finished = <<>>
    /\ input' = SubSeq(input, 1, TokenEnd(lex))
    /\ finished' = <<ScanResult>>
    /\ junk' \in JunkValues
    /\ lex' = NewLexer(0)
    /\ pc' = "optional_marker"
    /\ returned' = "running"
    /\ result_symbol' = "unset"
    /\ tried' = <<>>
    /\ UNCHANGED <<valid, payload>>

RoundSpec == RoundInit /\ [][Next \/ Rerun]_vars

\* The second call is running or has returned
Rerunning == finished # <<>>

NonMarkingKinds ==
    {OPTIONAL_MARKER, EMPTY_ARG, FUNCTION_DEF_MARKER, CONTINUATION_NEWLINE}

\* The commit point in force when a recognizer was entered: the dispatcher
\* marks the cursor before every recognizer but the optional marker's
MarkAtEntry(call) ==
    IF call.kind = OPTIONAL_MARKER THEN call.from.mark ELSE call.from.pos

\* C27: is_optional_marker, is_empty_arg, is_function_declaration and
\* scan_continuation_newline leave the commit point where it was when they
\* return false; a call with exactly one valid kind that returns false has
\* marked nothing but the starting position, except that
\* is_implicit_concatenation has marked the end of the blank run and
\* is_continuation_start the position after the opening parenthesis.
C27_DeclineKeepsCommitPoint ==
    /\ \A i \in 1..Len(tried) :
          (~tried[i].ok /\ tried[i].kind \in NonMarkingKinds) =>
              tried[i].to.mark = MarkAtEntry(tried[i])
    /\ \A k \in TokenType :
          (valid \cap TokenType = {k} /\ returned = "false") =>
              CASE k = OPTIONAL_MARKER -> lex.mark = NoMark
                []  k = IMPLICIT_CONCAT_MARKER ->
                        \/ lex.mark = 0
                        \/ /\ lex.mark = HwsEnd(input, 1) - 1
                           /\ is_expression_start(input[lex.mark + 1])
                []  k = CONTINUATION_SECTION_START ->
                        \/ lex.mark = 0
                        \/ /\ lex.mark > 0
                           /\ input[lex.mark] = "("
                []  OTHER -> lex.mark = 0

\* A declined implicit concatenation that moved the commit point past the
\* blank, to the first of two plus signs
C27_Witness ==
    /\ pc = "done"
    /\ returned = "false"
    /\ valid = {IMPLICIT_CONCAT_MARKER}
    /\ input = <<SP, "+", "+">>
    /\ Len(tried) = 1
    /\ tried[1].from.mark = NoMark
    /\ lex.mark = 1

\* C28: when FUNCTION_DEF_MARKER is reported the commit point is the
\* position the dispatcher marked right before is_function_declaration ran,
\* and everything the recognizer inspected lies after it.
C28_FunctionDefIsLookahead ==
    (returned = "true" /\ result_symbol = FUNCTION_DEF_MARKER) =>
        /\ tried[Len(tried)].kind = FUNCTION_DEF_MARKER
        /\ lex.mark = tried[Len(tried)].from.pos
        /\ TokenEnd(lex) = tried[Len(tried)].from.pos
        /\ lex.pos > TokenEnd(lex)
        /\ (valid \cap TokenType = {FUNCTION_DEF_MARKER}) => TokenEnd(lex) = 0

\* A function definition after a blank, reported with nothing consumed
C28_Witness ==
    /\ pc = "done"
    /\ returned = "true"
    /\ result_symbol = FUNCTION_DEF_MARKER
    /\ valid = {FUNCTION_DEF_MARKER}
    /\ input = <<SP, "f", "(", ")", "{">>
    /\ TokenEnd(lex) = 0
    /\ lex.pos >= 4

\* C29: with EMPTY_ARG and IMPLICIT_CONCAT_MARKER both valid the
\* dispatcher never reports IMPLICIT_CONCAT_MARKER: the declined empty
\* argument has advanced over the whitespace, so the call for the
\* concatenation starts at a character that is no space or tab and
\* declines.
C29_EmptyArgShadowsConcat ==
    ({EMPTY_ARG, IMPLICIT_CONCAT_MARKER} \subseteq valid) =>
        /\ result_symbol # IMPLICIT_CONCAT_MARKER
        /\ \A i \in 1..Len(tried) :
              tried[i].kind = IMPLICIT_CONCAT_MARKER =>
                  /\ ~tried[i].ok
                  /\ lookahead(input, tried[i].from) \notin {SP, TAB}

\* The call on a blank and a string with both kinds valid returns false
C29_Witness ==
    /\ pc = "done"
    /\ returned = "false"
    /\ valid = {EMPTY_ARG, IMPLICIT_CONCAT_MARKER}
    /\ input = <<SP, DQ, "b", DQ>>
    /\ Len(tried) = 2
    /\ tried[2].kind = IMPLICIT_CONCAT_MARKER

=============================================================================
